---------------------------- MODULE Spec2Model ----------------------------
(***************************************************************************)
(* Model of welds' schema check (src/welds/src/check/mod.rs).              *)
(*                                                                         *)
(* One call of `schema::<T>(client)` is modelled.  The call has a single   *)
(* suspension point, the catalog lookup `find_table(..).await`; the code   *)
(* before it is the action Call (or CallPanics), and the code after it is  *)
(* one of FindTableErr / FindTableNone / FindTableSome, chosen by what the *)
(* catalog answers.                                                        *)
(*                                                                         *)
(* Option<T> is a sequence of length at most one: <<>> is None and <<v>>   *)
(* is Some(v).                                                             *)
(***************************************************************************)
EXTENDS Naturals, Sequences, FiniteSets

(***************************************************************************)
(* Bounds and input domains.                                               *)
(***************************************************************************)
MaxTableCols == 2
MaxModelCols == 2

Syntaxes == {"Mssql", "Postgres", "Mysql", "Sqlite"}

\* identifier() of the model: the path of the table, most specific last.
Identifiers ==
    { <<>>, <<"users">>, <<"sales", "users">>, <<"db", "sales", "users">> }

\* The catalog's columns vary in name and nullability, the model's in name
\* and declared type: under Postgres "INT4"/"i32" are equivalent by a group,
\* under the other dialects they are not, and "INT4"/"INT4" are identical.
Names == {"id", "name", "email"}
DbTypes == {"INT4"}
RustTypes == {"i32", "INT4"}
Errors == {"connection", "permission"}

ColumnDef == [name : Names, ty : DbTypes, null : BOOLEAN]
Column == [name : Names, rust_type : RustTypes, nullable : {FALSE}]

SeqsUpTo(S, n) == UNION { [1..k -> S] : k \in 0..n }

None == <<>>
Some(v) == <<v>>

(***************************************************************************)
(* crate::writers::types -- the dialect's groups of interchangeable type   *)
(* names and the equivalence predicate over them.                          *)
(***************************************************************************)
get_pairs(syntax) ==
    CASE syntax = "Postgres" -> << {"INT4", "i32"}, {"INT8", "i64"} >>
      [] syntax = "Mssql"    -> << {"INT", "i32"}, {"BIGINT", "i64"} >>
      [] syntax = "Mysql"    -> << {"INT", "i32"}, {"BIGINT", "i64"} >>
      [] syntax = "Sqlite"   -> << {"INTEGER", "i32"}, {"INTEGER", "i64"} >>

are_equivalent_types(pairs, db_type, rust_type) ==
    \/ db_type = rust_type
    \/ \E g \in 1..Len(pairs) : db_type \in pairs[g] /\ rust_type \in pairs[g]

(***************************************************************************)
(* check::issue -- the constructors of Issue.                              *)
(***************************************************************************)
missing_table(namespace, tablename) ==
    [kind |-> "MissingTable", namespace |-> namespace, tablename |-> tablename]

issue_struct_added(namespace, tablename, col) ==
    [kind |-> "ColumnAddedInModel", namespace |-> namespace,
     tablename |-> tablename, column |-> col]

issue_changed(namespace, tablename, diff) ==
    [kind |-> "ColumnChanged", namespace |-> namespace,
     tablename |-> tablename, diff |-> diff]

issue_struct_missing(namespace, tablename, col) ==
    [kind |-> "ColumnMissingInModel", namespace |-> namespace,
     tablename |-> tablename, column |-> col]

(***************************************************************************)
(* check/mod.rs -- the pure helpers.                                       *)
(***************************************************************************)
\* Mutant: the defaults of Mssql and Postgres exchanged.
unwrap_to_default_namespace_swapped(ns, syntax) ==
    IF ns # None THEN ns
    ELSE CASE syntax = "Mssql"    -> Some("public")
           [] syntax = "Postgres" -> Some("dbo")
           [] syntax = "Mysql"    -> None
           [] syntax = "Sqlite"   -> None

unwrap_to_default_namespace(ns, syntax) ==
    IF ns # None THEN ns
    ELSE CASE syntax = "Mssql"    -> Some("dbo")
           [] syntax = "Postgres" -> Some("public")
           [] syntax = "Mysql"    -> None
           [] syntax = "Sqlite"   -> None

\* Mutant: the negation of the filter dropped.
struct_missing_not_negated(table_cols, model_cols) ==
    LET model_has(name) == \E i \in 1..Len(model_cols) : model_cols[i].name = name
    IN  SelectSeq(table_cols, LAMBDA tc : model_has(tc.name))

struct_missing(table_cols, model_cols) ==
    LET model_has(name) == \E i \in 1..Len(model_cols) : model_cols[i].name = name
    IN  SelectSeq(table_cols, LAMBDA tc : ~model_has(tc.name))

\* Mutant: the name is looked up among the model's own columns.
struct_added_self_lookup(table_cols, model_cols) ==
    LET table_has(name) == \E i \in 1..Len(model_cols) : model_cols[i].name = name
    IN  SelectSeq(model_cols, LAMBDA mc : ~table_has(mc.name))

struct_added(table_cols, model_cols) ==
    LET table_has(name) == \E i \in 1..Len(table_cols) : table_cols[i].name = name
    IN  SelectSeq(model_cols, LAMBDA mc : ~table_has(mc.name))

\* Mutant: the last column of that name instead of the first.
RECURSIVE table_find_last(_, _)
table_find_last(table_cols, name) ==
    IF table_cols = <<>> THEN None
    ELSE IF table_cols[Len(table_cols)].name = name
         THEN Some(table_cols[Len(table_cols)])
         ELSE table_find_last(SubSeq(table_cols, 1, Len(table_cols) - 1), name)

\* iter().find(): the first element that satisfies the predicate, if any.
RECURSIVE table_find(_, _)
table_find(table_cols, name) ==
    IF table_cols = <<>> THEN None
    ELSE IF Head(table_cols).name = name THEN Some(Head(table_cols))
    ELSE table_find(Tail(table_cols), name)

\* Mutant: the iteration runs over the table's columns, each paired with the
\* first model column of its name.
RECURSIVE zip_by_name_table_order(_, _)
zip_by_name_table_order(table_cols, model_cols) ==
    IF table_cols = <<>> THEN <<>>
    ELSE LET tc == Head(table_cols)
             Matches == { i \in 1..Len(model_cols) : model_cols[i].name = tc.name }
             rest == zip_by_name_table_order(Tail(table_cols), model_cols)
         IN  IF Matches # {}
             THEN << <<tc, model_cols[CHOOSE i \in Matches : \A j \in Matches : i <= j]>> >>
                  \o rest
             ELSE rest

RECURSIVE zip_by_name(_, _)
zip_by_name(table_cols, model_cols) ==
    IF model_cols = <<>> THEN <<>>
    ELSE LET mc == Head(model_cols)
             first == table_find(table_cols, mc.name)
             rest == zip_by_name(table_cols, Tail(model_cols))
         IN  IF first # None THEN << <<first[1], mc>> >> \o rest ELSE rest

\* Mutant: type_changed reports any change, the nullability's included.
build_diff_any_change(pairs, dbcol, field) ==
    LET type_changed == ~are_equivalent_types(pairs, dbcol.ty, field.rust_type)
        nullable_chagned == dbcol.null # field.nullable
    IN  IF type_changed \/ nullable_chagned
        THEN Some([column |-> dbcol.name,
                   db_type |-> dbcol.ty,
                   db_nullable |-> dbcol.null,
                   welds_type |-> field.rust_type,
                   welds_nullable |-> field.nullable,
                   type_changed |-> type_changed \/ nullable_chagned])
        ELSE None

\* Mutant: only a change of type yields a Diff.
build_diff_type_only(pairs, dbcol, field) ==
    LET type_changed == ~are_equivalent_types(pairs, dbcol.ty, field.rust_type)
    IN  IF type_changed
        THEN Some([column |-> dbcol.name,
                   db_type |-> dbcol.ty,
                   db_nullable |-> dbcol.null,
                   welds_type |-> field.rust_type,
                   welds_nullable |-> field.nullable,
                   type_changed |-> type_changed])
        ELSE None

build_diff(pairs, dbcol, field) ==
    LET type_changed == ~are_equivalent_types(pairs, dbcol.ty, field.rust_type)
        nullable_chagned == dbcol.null # field.nullable
    IN  IF type_changed \/ nullable_chagned
        THEN Some([column |-> dbcol.name,
                   db_type |-> dbcol.ty,
                   db_nullable |-> dbcol.null,
                   welds_type |-> field.rust_type,
                   welds_nullable |-> field.nullable,
                   type_changed |-> type_changed])
        ELSE None

\* filter_map over the zipped pairs: the Some results, in the pairs' order.
RECURSIVE filter_map_build_diff(_, _)
filter_map_build_diff(pairs, zipped_pairs) ==
    IF zipped_pairs = <<>> THEN <<>>
    ELSE build_diff(pairs, Head(zipped_pairs)[1], Head(zipped_pairs)[2])
         \o filter_map_build_diff(pairs, Tail(zipped_pairs))

build_diffs(pairs, table_cols, model_cols) ==
    filter_map_build_diff(pairs, zip_by_name(table_cols, model_cols))

\* Mutant: the missing columns pushed before the changed ones.
schema_problems_missing_first(namespace, tablename, table_cols, model_cols, pairs) ==
    LET added == struct_added(table_cols, model_cols)
        diffs == build_diffs(pairs, table_cols, model_cols)
        missing == struct_missing(table_cols, model_cols)
    IN  [i \in 1..Len(added) |-> issue_struct_added(namespace, tablename, added[i])]
        \o [i \in 1..Len(missing) |->
               issue_struct_missing(namespace, tablename, missing[i])]
        \o [i \in 1..Len(diffs) |-> issue_changed(namespace, tablename, diffs[i])]

\* The body of `schema` after the table was found: lines 32-48.
schema_problems(namespace, tablename, table_cols, model_cols, pairs) ==
    LET added == struct_added(table_cols, model_cols)
        diffs == build_diffs(pairs, table_cols, model_cols)
        missing == struct_missing(table_cols, model_cols)
    IN  [i \in 1..Len(added) |-> issue_struct_added(namespace, tablename, added[i])]
        \o [i \in 1..Len(diffs) |-> issue_changed(namespace, tablename, diffs[i])]
        \o [i \in 1..Len(missing) |->
               issue_struct_missing(namespace, tablename, missing[i])]

(***************************************************************************)
(* State.                                                                  *)
(***************************************************************************)
VARIABLES
    pc,          \* "start", "find_table" (suspended in the await), "returned", "panicked"
    syntax,      \* client.syntax()
    identifier,  \* <T::Schema>::identifier()
    model_cols,  \* <T::Schema>::columns()
    namespace,   \* local: Option<&str>
    tablename,   \* local: &str
    lookups,     \* the calls of detect::find_table made so far, as <<namespace, tablename>>
    found,       \* what find_table answered: Result<Option<TableDef>>
    zipped,      \* the pairs build_diffs handed to build_diff
    result_ok,   \* Option<Vec<Issue>>: Some when the call returned Ok
    result_err   \* Option<Error>: Some when the call returned Err

Pending == [tag |-> "Pending", err |-> None, table |-> None]
AnsweredErr(e) == [tag |-> "Err", err |-> Some(e), table |-> None]
AnsweredOk(t) == [tag |-> "Ok", err |-> None, table |-> t]

vars == <<pc, syntax, identifier, model_cols, namespace, tablename, lookups,
          found, zipped, result_ok, result_err>>

Init ==
    /\ pc = "start"
    /\ syntax \in Syntaxes
    /\ identifier \in Identifiers
    /\ model_cols \in SeqsUpTo(Column, MaxModelCols)
    /\ namespace = None
    /\ tablename = ""
    /\ lookups = <<>>
    /\ found = Pending
    /\ zipped = <<>>
    /\ result_ok = None
    /\ result_err = None

\* Lines 21-27, up to the await.
Call ==
    /\ pc = "start"
    /\ Len(identifier) > 0
    /\ LET identifier_parts == [i \in 1..Len(identifier) |->
                                   identifier[Len(identifier) + 1 - i]]
           ns == IF Len(identifier_parts) >= 2 THEN Some(identifier_parts[2]) ELSE None
       IN  /\ tablename' = identifier_parts[1]
           /\ namespace' = unwrap_to_default_namespace(ns, syntax)
    /\ lookups' = Append(lookups, <<namespace', tablename'>>)
    /\ pc' = "find_table"
    /\ UNCHANGED <<syntax, identifier, model_cols, found, zipped, result_ok, result_err>>

\* Line 23: identifier_parts[0] of an empty identifier is out of bounds.
CallPanics ==
    /\ pc = "start"
    /\ Len(identifier) = 0
    /\ pc' = "panicked"
    /\ UNCHANGED <<syntax, identifier, model_cols, namespace, tablename, lookups,
                   found, zipped, result_ok, result_err>>

\* Mutant: a failed lookup is taken for an absent table.
FindTableErr_as_missing ==
    /\ pc = "find_table"
    /\ \E e \in Errors : found' = AnsweredErr(e)
    /\ result_ok' = Some(<< missing_table(namespace, tablename) >>)
    /\ pc' = "returned"
    /\ UNCHANGED <<syntax, identifier, model_cols, namespace, tablename, lookups,
                   zipped, result_err>>

\* Line 27: find_table(..).await? on Err(e).
FindTableErr ==
    /\ pc = "find_table"
    /\ \E e \in Errors :
          /\ found' = AnsweredErr(e)
          /\ result_err' = Some(e)
    /\ pc' = "returned"
    /\ UNCHANGED <<syntax, identifier, model_cols, namespace, tablename, lookups,
                   zipped, result_ok>>

\* Mutant: no early return; the absent table is compared as a table without
\* columns.
FindTableNone_falls_through ==
    /\ pc = "find_table"
    /\ found' = AnsweredOk(None)
    /\ zipped' = zip_by_name(<<>>, model_cols)
    /\ result_ok' = Some(<< missing_table(namespace, tablename) >>
                         \o schema_problems(namespace, tablename, <<>>, model_cols,
                                            get_pairs(syntax)))
    /\ pc' = "returned"
    /\ UNCHANGED <<syntax, identifier, model_cols, namespace, tablename, lookups,
                   result_err>>

\* Lines 27-30: find_table answered Ok(None).
FindTableNone ==
    /\ pc = "find_table"
    /\ found' = AnsweredOk(None)
    /\ result_ok' = Some(<< missing_table(namespace, tablename) >>)
    /\ pc' = "returned"
    /\ UNCHANGED <<syntax, identifier, model_cols, namespace, tablename, lookups,
                   zipped, result_err>>

\* Lines 27-48: find_table answered Ok(Some(tabledef)).
FindTableSome ==
    /\ pc = "find_table"
    /\ \E table_cols \in SeqsUpTo(ColumnDef, MaxTableCols) :
          /\ found' = AnsweredOk(Some(table_cols))
          /\ zipped' = zip_by_name(table_cols, model_cols)
          /\ result_ok' = Some(schema_problems(namespace, tablename, table_cols,
                                               model_cols, get_pairs(syntax)))
    /\ pc' = "returned"
    /\ UNCHANGED <<syntax, identifier, model_cols, namespace, tablename, lookups,
                   result_err>>

Next ==
    \/ Call
    \/ CallPanics
    \/ FindTableErr
    \/ FindTableNone
    \/ FindTableSome

Spec == Init /\ [][Next]_vars


(***************************************************************************)
(* Vocabulary of the properties.                                           *)
(***************************************************************************)
ReturnedOk == pc = "returned" /\ result_ok # None
TableFound == found.tag = "Ok" /\ found.table # None
Audited == ReturnedOk /\ TableFound

\* Only read where ReturnedOk / TableFound holds.
Issues == result_ok[1]
TableCols == found.table[1]

OfKind(k) == SelectSeq(Issues, LAMBDA x : x.kind = k)
AddedInModel == [i \in 1..Len(OfKind("ColumnAddedInModel")) |->
                    OfKind("ColumnAddedInModel")[i].column]
Changed == [i \in 1..Len(OfKind("ColumnChanged")) |-> OfKind("ColumnChanged")[i].diff]
MissingInModel == [i \in 1..Len(OfKind("ColumnMissingInModel")) |->
                      OfKind("ColumnMissingInModel")[i].column]

KindRank(k) ==
    CASE k = "ColumnAddedInModel"   -> 1
      [] k = "ColumnChanged"        -> 2
      [] k = "ColumnMissingInModel" -> 3
      [] OTHER                      -> 0

\* sub is seq restricted to the positions in I, in seq's order.
Position(I, i) == Cardinality({ j \in I : j <= i })
IsRestriction(sub, seq, I) ==
    /\ Len(sub) = Cardinality(I)
    /\ \A i \in I : sub[Position(I, i)] = seq[i]

TableHas(name) == \E j \in 1..Len(TableCols) : TableCols[j].name = name
ModelHas(name) == \E i \in 1..Len(model_cols) : model_cols[i].name = name
FirstInTable(name) ==
    CHOOSE j \in 1..Len(TableCols) :
        /\ TableCols[j].name = name
        /\ \A k \in 1..(j - 1) : TableCols[k].name # name

Equivalent(db_type, rust_type) ==
    are_equivalent_types(get_pairs(syntax), db_type, rust_type)

NameSet(cols) == { cols[i].name : i \in 1..Len(cols) }
ChangedNames == { Changed[i].column : i \in 1..Len(Changed) }

(***************************************************************************)
(* C1: the issues of an audit of an existing table are all the             *)
(* ColumnAddedInModel issues, then all the ColumnChanged issues, then all  *)
(* the ColumnMissingInModel issues: every issue is of one of these three   *)
(* kinds and no issue of an earlier kind follows one of a later kind.      *)
(***************************************************************************)
C1_IssueOrder ==
    Audited =>
        /\ \A i \in 1..Len(Issues) : KindRank(Issues[i].kind) \in 1..3
        /\ \A i, j \in 1..Len(Issues) :
              i < j => KindRank(Issues[i].kind) <= KindRank(Issues[j].kind)
        /\ Issues = OfKind("ColumnAddedInModel") \o OfKind("ColumnChanged")
                        \o OfKind("ColumnMissingInModel")

C1_Witness ==
    /\ Audited
    /\ AddedInModel # <<>>
    /\ Changed # <<>>
    /\ MissingInModel # <<>>

(***************************************************************************)
(* C2: when the catalog reports the table absent the audit returns Ok with *)
(* exactly one issue, MissingTable with the namespace and table name that  *)
(* were passed to the lookup, whatever the model's columns are; no column  *)
(* pair is compared.                                                       *)
(***************************************************************************)
C2_MissingTable ==
    (pc = "returned" /\ found = AnsweredOk(None)) =>
        /\ result_err = None
        /\ result_ok = Some(<< [kind |-> "MissingTable",
                                namespace |-> lookups[1][1],
                                tablename |-> lookups[1][2]] >>)
        /\ zipped = <<>>

C2_Witness ==
    /\ pc = "returned"
    /\ found = AnsweredOk(None)
    /\ Len(model_cols) = MaxModelCols
    /\ Len(result_ok[1]) = 1

(***************************************************************************)
(* C3: when the lookup fails the audit returns that failure and no issue   *)
(* list; the lookup was made once.  A returned audit is either a failure   *)
(* or an issue list, never both and never neither.                         *)
(***************************************************************************)
C3_FailurePropagated ==
    /\ (pc = "returned" /\ found.tag = "Err") =>
          /\ result_err = found.err
          /\ result_ok = None
          /\ zipped = <<>>
          /\ Len(lookups) = 1
    /\ pc = "returned" => ((result_ok = None) # (result_err = None))
    /\ pc # "returned" => (result_ok = None /\ result_err = None)

C3_Witness ==
    /\ pc = "returned"
    /\ found.tag = "Err"
    /\ result_err = Some("permission")
    /\ model_cols # <<>>

(***************************************************************************)
(* C4: the lookup receives the last segment of the identifier as the table *)
(* name, and as the namespace the second-to-last segment if there is one,  *)
(* in every dialect; otherwise "dbo" under Mssql, "public" under Postgres, *)
(* and none under Mysql and Sqlite.                                        *)
(***************************************************************************)
C4_LookupArguments ==
    pc \in {"find_table", "returned"} =>
        /\ Len(lookups) = 1
        /\ lookups[1][2] = identifier[Len(identifier)]
        /\ Len(identifier) >= 2 => lookups[1][1] = Some(identifier[Len(identifier) - 1])
        /\ Len(identifier) = 1 =>
              /\ syntax = "Mssql" => lookups[1][1] = Some("dbo")
              /\ syntax = "Postgres" => lookups[1][1] = Some("public")
              /\ syntax \in {"Mysql", "Sqlite"} => lookups[1][1] = None

C4_Witness ==
    /\ pc = "find_table"
    /\ syntax = "Mssql"
    /\ identifier = <<"users">>
    /\ lookups = << <<Some("dbo"), "users">> >>

(***************************************************************************)
(* C5: no column name occurs in more than one of addedInModel,             *)
(* missingInModel and changed, repeated names included.                    *)
(***************************************************************************)
C5_Disjoint ==
    Audited =>
        /\ NameSet(AddedInModel) \cap NameSet(MissingInModel) = {}
        /\ NameSet(AddedInModel) \cap ChangedNames = {}
        /\ NameSet(MissingInModel) \cap ChangedNames = {}

\* The model repeats a name: both columns are changed against the same
\* column of the table, and another column of the table is missing.
C5_Witness ==
    /\ Audited
    /\ Len(Changed) = 2
    /\ Changed[1].column = Changed[2].column
    /\ MissingInModel # <<>>

(***************************************************************************)
(* C6: addedInModel is the model's columns, in their order, whose name is  *)
(* the name of no column of the table; missingInModel is the table's       *)
(* columns, in their order, whose name is the name of no model column.     *)
(* With no name in common they are the whole lists and changed is empty.   *)
(***************************************************************************)
C6_AddedAndMissing ==
    Audited =>
        /\ IsRestriction(AddedInModel, model_cols,
               { i \in 1..Len(model_cols) : ~TableHas(model_cols[i].name) })
        /\ IsRestriction(MissingInModel, TableCols,
               { j \in 1..Len(TableCols) : ~ModelHas(TableCols[j].name) })
        /\ NameSet(model_cols) \cap NameSet(TableCols) = {} =>
              /\ AddedInModel = model_cols
              /\ MissingInModel = TableCols
              /\ Changed = <<>>

\* The second model column is added while the first is not, and likewise
\* the second column of the table is missing while the first is not.
C6_Witness ==
    /\ Audited
    /\ Len(model_cols) = 2 /\ AddedInModel = << model_cols[2] >>
    /\ Len(TableCols) = 2 /\ MissingInModel = << TableCols[2] >>

(***************************************************************************)
(* C7 as stated: the changed Diffs are in the order of the table's         *)
(* columns: of two Diffs, the one whose column comes first in the table's  *)
(* list comes first.                                                       *)
(***************************************************************************)
C7_TableOrder ==
    Audited =>
        \A p, q \in 1..Len(Changed) :
            p < q => FirstInTable(Changed[p].column) <= FirstInTable(Changed[q].column)

\* A model column that has a column of its name in the table and differs
\* from the first such column in type or nullability.
Differs(mc) ==
    /\ TableHas(mc.name)
    /\ LET dbcol == TableCols[FirstInTable(mc.name)]
       IN  \/ ~Equivalent(dbcol.ty, mc.rust_type)
           \/ dbcol.null # mc.nullable

(***************************************************************************)
(* C7 amended: the changed Diffs are in the order of the model's columns:  *)
(* there is one Diff for each model column that differs from the table's   *)
(* column of its name, and the Diffs follow the model's declared order.    *)
(***************************************************************************)
C7_ModelOrder ==
    Audited =>
        LET I == { i \in 1..Len(model_cols) : Differs(model_cols[i]) }
        IN  /\ Len(Changed) = Cardinality(I)
            /\ \A i \in I :
                  /\ Changed[Position(I, i)].column = model_cols[i].name
                  /\ Changed[Position(I, i)].welds_type = model_cols[i].rust_type
                  /\ Changed[Position(I, i)].welds_nullable = model_cols[i].nullable

\* Two Diffs whose columns stand in the opposite order in the table.
C7_Witness ==
    /\ Audited
    /\ Len(Changed) = 2
    /\ FirstInTable(Changed[1].column) > FirstInTable(Changed[2].column)

(***************************************************************************)
(* C8: a compared pair yields a Diff exactly when the types are not        *)
(* equivalent under the dialect's groups or the nullability flags differ;  *)
(* type_changed of the Diff is the type mismatch alone, and the Diff       *)
(* carries the names, types and flags of the pair.                         *)
(***************************************************************************)
C8_DiffEmitted ==
    Audited =>
        LET TypeMismatch(k) == ~Equivalent(zipped[k][1].ty, zipped[k][2].rust_type)
            NullMismatch(k) == zipped[k][1].null # zipped[k][2].nullable
            D == { k \in 1..Len(zipped) : TypeMismatch(k) \/ NullMismatch(k) }
        IN  /\ Len(Changed) = Cardinality(D)
            /\ \A k \in D :
                  Changed[Position(D, k)] =
                      [column |-> zipped[k][1].name,
                       db_type |-> zipped[k][1].ty,
                       db_nullable |-> zipped[k][1].null,
                       welds_type |-> zipped[k][2].rust_type,
                       welds_nullable |-> zipped[k][2].nullable,
                       type_changed |-> TypeMismatch(k)]

\* One pair differs in nullability only, the other in nothing.
C8_Witness ==
    /\ Audited
    /\ Len(zipped) = 2
    /\ Len(Changed) = 1
    /\ Changed[1].type_changed = FALSE
    /\ Changed[1].db_nullable # Changed[1].welds_nullable

(***************************************************************************)
(* C9: a successful audit returns no issue exactly when the table exists,  *)
(* every model column's name is a name of the table, every name of the     *)
(* table is a model column's name, and every model column has a type       *)
(* equivalent to, and the nullability of, the column it is matched with.   *)
(***************************************************************************)
C9_EmptyIffNoDrift ==
    ReturnedOk =>
        (Issues = <<>> <=>
            /\ TableFound
            /\ \A i \in 1..Len(model_cols) : TableHas(model_cols[i].name)
            /\ \A j \in 1..Len(TableCols) : ModelHas(TableCols[j].name)
            /\ \A i \in 1..Len(model_cols) : ~Differs(model_cols[i]))

\* No drift between two columns, the types of one pair equivalent by a group.
C9_Witness ==
    /\ Audited
    /\ Issues = <<>>
    /\ Len(model_cols) = 2
    /\ \E i \in 1..2 : model_cols[i].rust_type # TableCols[FirstInTable(model_cols[i].name)].ty

(***************************************************************************)
(* C10: every model column whose name occurs in the table is compared with *)
(* the first column of the table of that name and with no other, each      *)
(* model column separately: there are as many comparisons as model columns *)
(* with a name match.                                                      *)
(***************************************************************************)
C10_FirstMatchWins ==
    Audited =>
        LET I == { i \in 1..Len(model_cols) : TableHas(model_cols[i].name) }
        IN  /\ Len(zipped) = Cardinality(I)
            /\ \A i \in I :
                  zipped[Position(I, i)] =
                      << TableCols[FirstInTable(model_cols[i].name)], model_cols[i] >>

\* The table has two different columns of one name and the model declares
\* that name twice: two comparisons, both with the table's first column.
C10_Witness ==
    /\ Audited
    /\ Len(TableCols) = 2
    /\ TableCols[1].name = TableCols[2].name
    /\ TableCols[1] # TableCols[2]
    /\ Len(zipped) = 2
    /\ zipped[1][1] = TableCols[1]
    /\ zipped[2][1] = TableCols[1]
    /\ zipped[1][2].name = zipped[2][2].name

=============================================================================
